---- MODULE Spec2Model ----
(***************************************************************************)
(* A model of healthcareai/common/model_eval.py: clfreport,                *)
(* print_regression_metrics, find_top_three_factors and GenerateAUC.       *)
(*                                                                         *)
(* Three specifications share the variables below:                         *)
(*   SpecAUC      one call of GenerateAUC, its arguments drawn by InitAUC  *)
(*   SpecClf      any sequence of clfreport calls over the pickle files    *)
(*   SpecFactors  any sequence of find_top_three_factors calls             *)
(*                                                                         *)
(* Python values are records with a field "type"; None is [type |-> "None"]*)
(* Rates and areas are exact fractions [num, den]; the code computes them  *)
(* in floating point.                                                      *)
(***************************************************************************)
EXTENDS Integers, Sequences, FiniteSets, TLC

VARIABLES
    pc,             \* position of the running call
    printed,        \* console output of the running call, in order
    ret,            \* the value the call returned, None before it returns
    raised,         \* the exception that ended the call, "" when none
    predictions, labels, aucType, plotFlg, allCutoffsFlg,   \* GenerateAUC arguments
    curveType,      \* GenerateAUC's local aucType after upper() and the fallback
    curve,          \* the curve computed by GenerateAUC
    area,           \* the area under it
    ind,            \* indexes of the points at minimal distance
    plotted,        \* which plot was shown, "" when none
    files,          \* the pickle files, by name
    call,           \* arguments of the latest clfreport / find_top_three_factors call
    clf,            \* the local clf of that call
    fitted,         \* the model that call fitted, None when it fitted nothing
    wrote,          \* names of the files that call wrote
    readf,          \* names of the files that call read
    lastWritten,    \* per file, the model stored by the most recent writing call
    importances,    \* what write_feature_importances received in that call
    X_test,         \* the caller's test table of find_top_three_factors
    tieOrder        \* how this build's argsort orders equal keys

vars == <<pc, printed, ret, raised, predictions, labels, aucType, plotFlg,
          allCutoffsFlg, curveType, curve, area, ind, plotted, files, call,
          clf, fitted, wrote, readf, lastWritten, importances, X_test, tieOrder>>

aucVars == <<predictions, labels, aucType, plotFlg, allCutoffsFlg, curveType,
             curve, area, ind, plotted>>
fileVars == <<files, call, clf, fitted, wrote, readf, lastWritten, importances>>
factorVars == <<X_test, tieOrder>>

----------------------------------------------------------------------------
(* Bounds of the model *)

MaxLen == 3         \* longest predictions / labels vector
MaxScore == 3       \* prediction scores are 1..MaxScore
MaxTrain == 2       \* training sets handed to clfreport
MaxTest == 1        \* test sets handed to clfreport
MaxRows == 2        \* rows of X_test in find_top_three_factors
NumCols == 3        \* columns of X_test in find_top_three_factors
MaxFactorTrain == 2 \* training sets handed to find_top_three_factors

None == [type |-> "None"]

\* the two files the module reads and writes, by their fixed names
PickleFiles == {"probability.pkl", "factorlogit.pkl"}

----------------------------------------------------------------------------
(* Small helpers standing for numpy / Python built-ins *)

Max(S) == CHOOSE m \in S : \A x \in S : x <= m
Min(S) == CHOOSE m \in S : \A x \in S : m <= x

RECURSIVE DescValues(_)
DescValues(S) == IF S = {} THEN <<>>
                 ELSE LET m == Max(S) IN <<m>> \o DescValues(S \ {m})

RECURSIVE AscValues(_)
AscValues(S) == IF S = {} THEN <<>>
                ELSE LET m == Min(S) IN <<m>> \o AscValues(S \ {m})

Reverse(s) == [k \in 1..Len(s) |-> s[Len(s) + 1 - k]]

RECURSIVE Fact(_)
Fact(n) == IF n <= 1 THEN 1 ELSE n * Fact(n - 1)

SeqsUpTo(S, n) == UNION {[1..k -> S] : k \in 0..n}

----------------------------------------------------------------------------
(* GenerateAUC *)

\* str.upper() on the letters the model's aucType strings are made of
ToUpper == [p |-> "P", r |-> "R", s |-> "S", x |-> "X"]
upper(s) == [k \in 1..Len(s) |-> IF s[k] \in DOMAIN ToUpper THEN ToUpper[s[k]] ELSE s[k]]

SS == <<"S", "S">>
PR == <<"P", "R">>
AucTypes == {SS, <<"s", "s">>, PR, <<"p", "R">>, <<"x">>}

NumPos(y) == Cardinality({i \in DOMAIN y : y[i] = 1})
NumNeg(y) == Cardinality({i \in DOMAIN y : y[i] = 0})

\* sklearn _binary_clf_curve: one point per distinct score, scores descending,
\* with the cumulative true and false positive counts at that threshold
binary_clf_curve(y_true, y_score) ==
    LET th == DescValues({y_score[i] : i \in DOMAIN y_score})
    IN [k \in 1..Len(th) |->
          [thr |-> th[k],
           tps |-> Cardinality({i \in DOMAIN y_score : y_score[i] >= th[k] /\ y_true[i] = 1}),
           fps |-> Cardinality({i \in DOMAIN y_score : y_score[i] >= th[k] /\ y_true[i] = 0})]]

\* sklearn roc_curve (drop_intermediate=True): interior points collinear with
\* their neighbours are dropped, then the point (0, 0) is put in front with
\* threshold max(score) + 1.  fpr = fps / N and tpr = tps / P.
roc_curve(y_true, y_score) ==
    LET c == binary_clf_curve(y_true, y_score)
        n == Len(c)
        keep == {k \in 1..n :
                    \/ k = 1
                    \/ k = n
                    \/ c[k + 1].fps - 2 * c[k].fps + c[k - 1].fps # 0
                    \/ c[k + 1].tps - 2 * c[k].tps + c[k - 1].tps # 0}
        idx == AscValues(keep)
    IN [pts |-> <<[thr |-> c[1].thr + 1, tps |-> 0, fps |-> 0]>>
                  \o [k \in 1..Len(idx) |-> c[idx[k]]],
        P |-> NumPos(y_true),
        N |-> NumNeg(y_true)]

\* sklearn auc(fpr, tpr): the trapezoidal rule
RECURSIVE TrapezoidSum(_, _)
TrapezoidSum(pts, k) ==
    IF k >= Len(pts) THEN 0
    ELSE (pts[k + 1].fps - pts[k].fps) * (pts[k + 1].tps + pts[k].tps)
         + TrapezoidSum(pts, k + 1)
auc(c) == [num |-> TrapezoidSum(c.pts, 1), den |-> 2 * c.N * c.P]

\* d = (fpr - 0)**2 + (tpr - 1)**2, over the common denominator (N * P)^2
RocDistance(c, k) ==
    (c.pts[k].fps * c.P) * (c.pts[k].fps * c.P)
    + ((c.P - c.pts[k].tps) * c.N) * ((c.P - c.pts[k].tps) * c.N)

\* ind = np.where(d == np.min(d))
RocInd(c) ==
    AscValues({k \in DOMAIN c.pts :
                  \A j \in DOMAIN c.pts : RocDistance(c, k) <= RocDistance(c, j)})

\* sklearn precision_recall_curve: the points up to full recall, thresholds
\* ascending, then the final point precision 1, recall 0, which has no
\* threshold. precision = tps / (tps + fps), recall = tps / P.
precision_recall_curve(y_true, y_score) ==
    LET c == binary_clf_curve(y_true, y_score)
        P == NumPos(y_true)
        last_ind == Min({k \in DOMAIN c : c[k].tps = P})
    IN [pts |-> Reverse(SubSeq(c, 1, last_ind)), P |-> P, N |-> NumNeg(y_true)]

\* the precision and recall arrays are one longer than thresh
PrLen(c) == Len(c.pts) + 1
Precision(c, k) == IF k = PrLen(c) THEN [num |-> 1, den |-> 1]
                   ELSE [num |-> c.pts[k].tps, den |-> c.pts[k].tps + c.pts[k].fps]
Recall(c, k) == IF k = PrLen(c) THEN [num |-> 0, den |-> c.P]
                ELSE [num |-> c.pts[k].tps, den |-> c.P]

\* sklearn average_precision_score: sum of (R_k - R_k+1) * P_k, over the
\* common denominator P * Len(y_true)!
RECURSIVE ApSum(_, _, _)
ApSum(c, k, f) ==
    IF k > Len(c.pts) THEN 0
    ELSE (Recall(c, k).num - Recall(c, k + 1).num) * Precision(c, k).num
            * (f \div Precision(c, k).den)
         + ApSum(c, k + 1, f)
average_precision_score(y_true, y_score) ==
    LET c == precision_recall_curve(y_true, y_score)
        f == Fact(Len(y_true))
    IN [num |-> ApSum(c, 1, f), den |-> c.P * f]

\* d = (precision - 1)**2 + (recall - 1)**2 as a fraction
PrDistance(c, k) ==
    LET p == Precision(c, k)
        r == Recall(c, k)
    IN [num |-> ((p.den - p.num) * r.den) * ((p.den - p.num) * r.den)
                + ((r.den - r.num) * p.den) * ((r.den - r.num) * p.den),
        den |-> (p.den * r.den) * (p.den * r.den)]

PrInd(c) ==
    AscValues({k \in 1..PrLen(c) :
                  \A j \in 1..PrLen(c) :
                      PrDistance(c, k).num * PrDistance(c, j).den
                        <= PrDistance(c, j).num * PrDistance(c, k).den})

\* the arguments of one call: lists of scores and of 0/1 labels; when the
\* lengths agree both classes are present, which is where the library's
\* curves are defined
AucInputs ==
    {in \in SeqsUpTo(1..MaxScore, MaxLen) \X SeqsUpTo({0, 1}, MaxLen) :
        Len(in[1]) = Len(in[2]) => NumPos(in[2]) > 0 /\ NumNeg(in[2]) > 0}

InitOther ==
    /\ files = [f \in PickleFiles |-> None]
    /\ lastWritten = [f \in PickleFiles |-> None]
    /\ call = None
    /\ clf = None
    /\ fitted = None
    /\ wrote = {}
    /\ readf = {}
    /\ importances = None
    /\ X_test = <<>>
    /\ tieOrder = "asc"

InitAUC ==
    /\ \E in \in AucInputs : predictions = in[1] /\ labels = in[2]
    /\ aucType \in AucTypes
    /\ plotFlg \in BOOLEAN
    /\ allCutoffsFlg \in BOOLEAN
    /\ pc = "start"
    /\ printed = <<>>
    /\ ret = None
    /\ raised = ""
    /\ curveType = <<>>
    /\ curve = None
    /\ area = None
    /\ ind = <<>>
    /\ plotted = ""
    /\ InitOther

\* CheckLengths with the length check placed after the aucType fallback
\* (lines 231-237 run before lines 227-229)
CheckLengthsAfterFallback ==
    /\ pc = "start"
    /\ IF Len(predictions) # Len(labels)
       THEN /\ raised' = "Data vectors are not equal length!"
            /\ pc' = "raised"
            /\ printed' = IF upper(aucType) # SS /\ upper(aucType) # PR
                          THEN Append(printed, "Drawing ROC curve with Sensitivity/Specificity")
                          ELSE printed
       ELSE /\ pc' = "select"
            /\ UNCHANGED <<raised, printed>>
    /\ UNCHANGED <<ret, aucVars, fileVars, factorVars>>

\* lines 227-229
CheckLengths ==
    /\ pc = "start"
    /\ IF Len(predictions) # Len(labels)
       THEN /\ raised' = "Data vectors are not equal length!"
            /\ pc' = "raised"
       ELSE /\ pc' = "select"
            /\ UNCHANGED raised
    /\ UNCHANGED <<printed, ret, aucVars, fileVars, factorVars>>

\* lines 231-240
SelectCurve ==
    /\ pc = "select"
    /\ IF upper(aucType) # SS /\ upper(aucType) # PR
       THEN /\ printed' = Append(printed, "Drawing ROC curve with Sensitivity/Specificity")
            /\ curveType' = SS
       ELSE /\ curveType' = upper(aucType)
            /\ UNCHANGED printed
    /\ pc' = IF curveType' = SS THEN "roc" ELSE "pr"
    /\ UNCHANGED <<ret, raised, predictions, labels, aucType, plotFlg, allCutoffsFlg,
                   curve, area, ind, plotted, fileVars, factorVars>>

\* lines 241-250; the format at line 250 converts cutoff, bestTpr and bestFpr
\* to float, which numpy refuses for an array that has not exactly one element
ComputeROC ==
    /\ pc = "roc"
    /\ curve' = roc_curve(labels, predictions)
    /\ area' = auc(curve')
    /\ ind' = RocInd(curve')
    /\ IF Len(ind') # 1
       THEN /\ printed' = Append(printed, "Area under ROC curve (AUC)")
            /\ raised' = "TypeError"
            /\ pc' = "raised"
       ELSE /\ printed' = printed \o <<"Area under ROC curve (AUC)", "Ideal cutoff">>
            /\ pc' = "roc_report"
            /\ UNCHANGED raised
    /\ UNCHANGED <<ret, predictions, labels, aucType, plotFlg, allCutoffsFlg,
                   curveType, plotted, fileVars, factorVars>>

\* lines 251-268
ReportROC ==
    /\ pc = "roc_report"
    /\ printed' = IF allCutoffsFlg
                  THEN printed \o <<"Thresh TPR FPR">>
                       \o [k \in 1..Len(curve.pts) |-> "cutoff row"]
                  ELSE printed
    /\ plotted' = IF plotFlg THEN "Receiver operating characteristic curve" ELSE plotted
    /\ pc' = "roc_return"
    /\ UNCHANGED <<ret, raised, predictions, labels, aucType, plotFlg, allCutoffsFlg,
                   curveType, curve, area, ind, fileVars, factorVars>>

\* lines 269-272
ReturnROC ==
    /\ pc = "roc_return"
    /\ ret' = [type |-> "dict",
               AU_ROC |-> area,
               BestCutoff |-> curve.pts[ind[1]].thr,
               BestTpr |-> [num |-> curve.pts[ind[1]].tps, den |-> curve.P],
               BestFpr |-> [num |-> curve.pts[ind[1]].fps, den |-> curve.N]]
    /\ pc' = "returned"
    /\ UNCHANGED <<printed, raised, aucVars, fileVars, factorVars>>

\* lines 276-286; thresh is one shorter than precision and recall, so
\* thresh[ind] is an IndexError when ind holds the final point, and the format
\* at line 285 fails like the one at line 250
ComputePR ==
    /\ pc = "pr"
    /\ curve' = precision_recall_curve(labels, predictions)
    /\ area' = average_precision_score(labels, predictions)
    /\ ind' = PrInd(curve')
    /\ IF \E k \in 1..Len(ind') : ind'[k] > Len(curve'.pts)
       THEN /\ printed' = Append(printed, "Area under PR curve (AU_PR)")
            /\ raised' = "IndexError"
            /\ pc' = "raised"
       ELSE IF Len(ind') # 1
       THEN /\ printed' = Append(printed, "Area under PR curve (AU_PR)")
            /\ raised' = "TypeError"
            /\ pc' = "raised"
       ELSE /\ printed' = printed \o <<"Area under PR curve (AU_PR)", "Ideal cutoff">>
            /\ pc' = "pr_report"
            /\ UNCHANGED raised
    /\ UNCHANGED <<ret, predictions, labels, aucType, plotFlg, allCutoffsFlg,
                   curveType, plotted, fileVars, factorVars>>

\* lines 287-305; the label 'Precision-Recall curve' % area has no conversion
\* and area is a numpy scalar, which Python takes as a mapping: no failure
ReportPR ==
    /\ pc = "pr_report"
    /\ printed' = IF allCutoffsFlg
                  THEN printed \o <<"Thresh Precision Recall">>
                       \o [k \in 1..Len(curve.pts) |-> "cutoff row"]
                  ELSE printed
    /\ plotted' = IF plotFlg THEN "Precision-Recall AUC" ELSE plotted
    /\ pc' = "pr_return"
    /\ UNCHANGED <<ret, raised, predictions, labels, aucType, plotFlg, allCutoffsFlg,
                   curveType, curve, area, ind, fileVars, factorVars>>

\* lines 306-309
ReturnPR ==
    /\ pc = "pr_return"
    /\ ret' = [type |-> "dict",
               AU_PR |-> area,
               BestCutoff |-> curve.pts[ind[1]].thr,
               BestPrecision |-> Precision(curve, ind[1]),
               BestRecall |-> Recall(curve, ind[1])]
    /\ pc' = "returned"
    /\ UNCHANGED <<printed, raised, aucVars, fileVars, factorVars>>

NextAUC ==
    \/ CheckLengths
    \/ SelectCurve
    \/ ComputeROC
    \/ ReportROC
    \/ ReturnROC
    \/ ComputePR
    \/ ReportPR
    \/ ReturnPR

SpecAUC == InitAUC /\ [][NextAUC]_vars

----------------------------------------------------------------------------
(* The estimators and metrics of the external library, as far as the code *)
(* looks at them                                                          *)

\* an estimator as the caller constructs it: "linear" has no
\* feature_importances_, "forest" has them once fitted
Estimator(kind) == [type |-> "estimator", kind |-> kind]

\* GridSearchCV(algo, param, cv=5, scoring='roc_auc', n_jobs=cores)
GridSearchCV(algo) == [type |-> "GridSearchCV", kind |-> algo.kind]

\* est.fit(X_train, y_train): the fitted model is determined by the estimator
\* and the training data
fit(est, train) == [type |-> est.type, kind |-> est.kind, train |-> train]

IsFitted(m) == "train" \in DOMAIN m

\* hasattr(clf, 'feature_importances_')
has_feature_importances(m) == m.type = "estimator" /\ m.kind = "forest" /\ IsFitted(m)
\* hasattr(clf, 'best_estimator_'), hasattr(clf, 'best_params_')
has_best_estimator(m) == m.type = "GridSearchCV" /\ IsFitted(m)
best_estimator(m) == [type |-> "estimator", kind |-> m.kind, train |-> m.train]
feature_importances(m) == [type |-> "importances", model |-> m]

\* clf.predict_proba(X_test)[:, 1] and clf.predict(X_test)
predict_proba(m, X) == [type |-> "proba", model |-> m, X |-> X]
predict(m, X) == [type |-> "values", model |-> m, X |-> X]

roc_auc_score(y_true, y_score) == [type |-> "roc_auc", y_true |-> y_true, y_score |-> y_score]
pr_auc_score(y_true, y_score) == [type |-> "pr_auc", y_true |-> y_true, y_score |-> y_score]

\* sklearn's regression metrics validate both arguments as arrays: None is
\* refused with a TypeError
mean_squared_error(y_true, y_pred) ==
    IF y_true = None \/ y_pred = None THEN [type |-> "TypeError"]
    ELSE [type |-> "mse", y_true |-> y_true, y_pred |-> y_pred]
mean_absolute_error(y_true, y_pred) ==
    IF y_true = None \/ y_pred = None THEN [type |-> "TypeError"]
    ELSE [type |-> "mae", y_true |-> y_true, y_pred |-> y_pred]

\* output_utilities.save_object_as_pickle(filename, object)
save_object_as_pickle(fs, name, obj) == [fs EXCEPT ![name] = obj]
\* output_utilities.load_pickle_file(filename); a missing file is an IOError
load_pickle_file(fs, name) == fs[name]

----------------------------------------------------------------------------
(* clfreport *)

\* lines 126-131: what the function prints, and the exception that ends it
print_regression_metrics(y_pred, y_pred_class, y_test) ==
    LET head == <<"####", "Model accuracy:">>
    IN IF mean_squared_error(y_test, y_pred_class).type = "TypeError"
       THEN [printed |-> head, raised |-> "TypeError"]
       ELSE IF mean_absolute_error(y_test, y_pred).type = "TypeError"
       THEN [printed |-> Append(head, "RMSE error:"), raised |-> "TypeError"]
       ELSE [printed |-> head \o <<"RMSE error:", "Mean absolute error:", "####">>,
             raised |-> ""]

\* lines 134-137
print_classification_metrics(pr_auc, roc_auc) ==
    <<"Metrics:", "AU_ROC ScoreX:", "AU_PR Score:">>

\* lines 62-66
DebugHeader(debug) ==
    (IF debug THEN <<"clf object right before fitting main model:", "clf">> ELSE <<>>)
    \o <<"algo">>

\* lines 82-86
TuningNotice(m, tune) ==
    IF has_best_estimator(m) /\ tune
    THEN <<"Best hyper-parameters found after tuning:", "best_params_">>
    ELSE <<"No hyper-parameter tuning was done.">>

\* lines 89-106 and, when no branch returns, line 123: the value returned and
\* what feature_importances.write_feature_importances received; roc_auc is
\* None when no statement assigned it, and returning it is then an
\* UnboundLocalError
YesdevReturn(m, y_pred, roc_auc, col_list) ==
    IF ~has_feature_importances(m) /\ ~has_best_estimator(m)
    THEN [raised |-> IF roc_auc = None THEN "UnboundLocalError" ELSE "",
          ret |-> [type |-> "tuple", items |-> <<y_pred, roc_auc>>],
          importances |-> None]
    ELSE IF has_feature_importances(m)
    THEN [raised |-> IF roc_auc = None THEN "UnboundLocalError" ELSE "",
          ret |-> [type |-> "tuple", items |-> <<y_pred, roc_auc, m>>],
          importances |-> [type |-> "written", values |-> feature_importances(m),
                           col_list |-> col_list]]
    ELSE IF has_feature_importances(best_estimator(m))
    THEN [raised |-> IF roc_auc = None THEN "UnboundLocalError" ELSE "",
          ret |-> [type |-> "tuple", items |-> <<y_pred, roc_auc, m>>],
          importances |-> [type |-> "written",
                           values |-> feature_importances(best_estimator(m)),
                           col_list |-> col_list]]
    ELSE [raised |-> "", ret |-> y_pred, importances |-> None]

Args(modeltype, debug, devcheck, algo, X_train, X_t, tune, use_saved_model) ==
    [type |-> "clfreport", modeltype |-> modeltype, debug |-> debug,
     devcheck |-> devcheck, algo |-> algo, X_train |-> X_train, X_test |-> X_t,
     tune |-> tune, use_saved_model |-> use_saved_model]

y_test_of(X_t) == [type |-> "labels", X |-> X_t]
col_list_of(X_t) == [type |-> "columns", X |-> X_t]

\* lines 57-76 and 82-106: devcheck == 'yesdev', modeltype == 'classification'
clfreport_yesdev_classification(debug, algo, X_train, X_t, tune, use_saved_model) ==
    LET m == fit(IF tune THEN GridSearchCV(algo) ELSE algo, X_train)
        y_pred == predict_proba(m, X_t)
        roc_auc == roc_auc_score(y_test_of(X_t), y_pred)
        pr_auc == pr_auc_score(y_test_of(X_t), y_pred)
        out == YesdevReturn(m, y_pred, roc_auc, col_list_of(X_t))
    IN /\ call' = Args("classification", debug, "yesdev", algo, X_train, X_t, tune,
                       use_saved_model)
       /\ clf' = m
       /\ fitted' = m
       /\ printed' = DebugHeader(debug) \o print_classification_metrics(pr_auc, roc_auc)
                     \o TuningNotice(m, tune)
       /\ importances' = out.importances
       /\ raised' = out.raised
       /\ ret' = IF out.raised = "" THEN out.ret ELSE None
       /\ pc' = IF out.raised = "" THEN "returned" ELSE "raised"
       /\ wrote' = {}
       /\ readf' = {}
       /\ UNCHANGED <<files, lastWritten, aucVars, factorVars>>

\* lines 57-66, 77-80 and 82-106: devcheck == 'yesdev', modeltype == 'regression';
\* y_pred_class is still None when print_regression_metrics receives it
clfreport_yesdev_regression(debug, algo, X_train, X_t, tune, use_saved_model) ==
    LET m == fit(IF tune THEN GridSearchCV(algo) ELSE algo, X_train)
        y_pred == predict(m, X_t)
        y_pred_class == None
        metrics == print_regression_metrics(y_pred, y_pred_class, y_test_of(X_t))
        out == YesdevReturn(m, y_pred, None, col_list_of(X_t))
        failure == IF metrics.raised # "" THEN metrics.raised ELSE out.raised
    IN /\ call' = Args("regression", debug, "yesdev", algo, X_train, X_t, tune,
                       use_saved_model)
       /\ clf' = m
       /\ fitted' = m
       /\ printed' = DebugHeader(debug) \o metrics.printed
                     \o (IF metrics.raised = "" THEN TuningNotice(m, tune) ELSE <<>>)
       /\ importances' = IF metrics.raised = "" THEN out.importances ELSE None
       /\ raised' = failure
       /\ ret' = IF failure = "" THEN out.ret ELSE None
       /\ pc' = IF failure = "" THEN "returned" ELSE "raised"
       /\ wrote' = {}
       /\ readf' = {}
       /\ UNCHANGED <<files, lastWritten, aucVars, factorVars>>

\* NotdevModel with line 109 testing the truth of use_saved_model instead of
\* its identity with True
NotdevModelTruthy(fs, debug, algo, X_train, use_saved_model) ==
    IF use_saved_model # "False"
    THEN [clf |-> load_pickle_file(fs, "probability.pkl"),
          fitted |-> None,
          files |-> fs,
          wrote |-> {},
          readf |-> {"probability.pkl"},
          printed |-> <<>>,
          raised |-> IF load_pickle_file(fs, "probability.pkl") = None
                     THEN "IOError" ELSE ""]
    ELSE [clf |-> fit(algo, X_train),
          fitted |-> fit(algo, X_train),
          files |-> save_object_as_pickle(fs, "probability.pkl", fit(algo, X_train)),
          wrote |-> {"probability.pkl"},
          readf |-> {},
          printed |-> IF debug THEN <<"clf object right before fitting main model:">>
                      ELSE <<>>,
          raised |-> ""]

\* lines 109-116: the model the notdev branch predicts with, and what it does
\* to probability.pkl on the way
NotdevModel(fs, debug, algo, X_train, use_saved_model) ==
    IF use_saved_model = "True"
    THEN [clf |-> load_pickle_file(fs, "probability.pkl"),
          fitted |-> None,
          files |-> fs,
          wrote |-> {},
          readf |-> {"probability.pkl"},
          printed |-> <<>>,
          raised |-> IF load_pickle_file(fs, "probability.pkl") = None
                     THEN "IOError" ELSE ""]
    ELSE [clf |-> fit(algo, X_train),
          fitted |-> fit(algo, X_train),
          files |-> save_object_as_pickle(fs, "probability.pkl", fit(algo, X_train)),
          wrote |-> {"probability.pkl"},
          readf |-> {},
          printed |-> IF debug THEN <<"clf object right before fitting main model:">>
                      ELSE <<>>,
          raised |-> ""]

\* lines 108-123: devcheck == 'notdev'
clfreport_notdev(modeltype, debug, algo, X_train, X_t, tune, use_saved_model) ==
    LET got == NotdevModel(files, debug, algo, X_train, use_saved_model)
    IN /\ call' = Args(modeltype, debug, "notdev", algo, X_train, X_t, tune,
                       use_saved_model)
       /\ clf' = got.clf
       /\ fitted' = got.fitted
       /\ files' = got.files
       /\ wrote' = got.wrote
       /\ readf' = got.readf
       /\ lastWritten' = IF "probability.pkl" \in got.wrote
                         THEN [lastWritten EXCEPT !["probability.pkl"] = got.fitted]
                         ELSE lastWritten
       /\ printed' = got.printed
       /\ raised' = got.raised
       /\ ret' = IF got.raised # "" THEN None
                 ELSE IF modeltype = "classification" THEN predict_proba(got.clf, X_t)
                 ELSE predict(got.clf, X_t)
       /\ pc' = IF got.raised = "" THEN "returned" ELSE "raised"
       /\ importances' = None
       /\ UNCHANGED <<aucVars, factorVars>>

\* lines 52-57, 108 and 123: any other devcheck returns the initial y_pred
clfreport_other(modeltype, debug, algo, X_train, X_t, tune, use_saved_model) ==
    /\ call' = Args(modeltype, debug, "other", algo, X_train, X_t, tune, use_saved_model)
    /\ clf' = algo
    /\ fitted' = None
    /\ printed' = <<>>
    /\ raised' = ""
    /\ ret' = None
    /\ pc' = "returned"
    /\ wrote' = {}
    /\ readf' = {}
    /\ importances' = None
    /\ UNCHANGED <<files, lastWritten, aucVars, factorVars>>

ModelTypes == {"classification", "regression"}
Algos == {Estimator("linear"), Estimator("forest")}
\* use_saved_model as the caller passes it: True, False, or a value such as 1
\* that is neither
UseSavedValues == {"True", "False", "1"}

InitAucIdle ==
    /\ predictions = <<>>
    /\ labels = <<>>
    /\ aucType = <<>>
    /\ plotFlg = FALSE
    /\ allCutoffsFlg = FALSE
    /\ curveType = <<>>
    /\ curve = None
    /\ area = None
    /\ ind = <<>>
    /\ plotted = ""

InitClf ==
    /\ pc = "idle"
    /\ printed = <<>>
    /\ ret = None
    /\ raised = ""
    /\ InitAucIdle
    /\ InitOther

YesdevClassification ==
    \E debug \in BOOLEAN, algo \in Algos, X_train \in 1..MaxTrain, X_t \in 1..MaxTest,
       tune \in BOOLEAN, use_saved_model \in UseSavedValues :
        clfreport_yesdev_classification(debug, algo, X_train, X_t, tune, use_saved_model)

YesdevRegression ==
    \E debug \in BOOLEAN, algo \in Algos, X_train \in 1..MaxTrain, X_t \in 1..MaxTest,
       tune \in BOOLEAN, use_saved_model \in UseSavedValues :
        clfreport_yesdev_regression(debug, algo, X_train, X_t, tune, use_saved_model)

Notdev ==
    \E modeltype \in ModelTypes, debug \in BOOLEAN, algo \in Algos,
       X_train \in 1..MaxTrain, X_t \in 1..MaxTest, tune \in BOOLEAN,
       use_saved_model \in UseSavedValues :
        clfreport_notdev(modeltype, debug, algo, X_train, X_t, tune, use_saved_model)

OtherDevcheck ==
    \E modeltype \in ModelTypes, debug \in BOOLEAN, algo \in Algos,
       X_train \in 1..MaxTrain, X_t \in 1..MaxTest, tune \in BOOLEAN,
       use_saved_model \in UseSavedValues :
        clfreport_other(modeltype, debug, algo, X_train, X_t, tune, use_saved_model)

NextClf ==
    \/ YesdevClassification
    \/ YesdevRegression
    \/ Notdev
    \/ OtherDevcheck

SpecClf == InitClf /\ [][NextClf]_vars

----------------------------------------------------------------------------
(* find_top_three_factors *)

ColumnNames == <<"age", "bmi", "pulse", "weight">>
\* X_test.columns.values
col_list == SubSeq(ColumnNames, 1, NumCols)

\* lines 150-153
NewFactorModel(model_type) ==
    IF model_type = "classification" THEN Estimator("LogisticRegression")
    ELSE Estimator("LinearRegression")

\* the training data of find_top_three_factors is represented by the
\* coefficient vector that fitting a linear model on it yields: training set
\* t gives column t a negative weight and the other columns a positive one
FactorTrainSets ==
    {[j \in 1..NumCols |-> IF j = t THEN -1 ELSE 1] : t \in 1..MaxFactorTrain}
coef_(m) == m.train

\* lines 155-166: the model the ranking uses, and what happens to
\* factorlogit.pkl on the way; save_object_as_pickle sits inside the
\* regression branch
FactorModel(fs, X_train, model_type, use_saved_model) ==
    IF use_saved_model = "True"
    THEN [clf |-> load_pickle_file(fs, "factorlogit.pkl"),
          fitted |-> None,
          files |-> fs,
          wrote |-> {},
          readf |-> {"factorlogit.pkl"},
          raised |-> IF load_pickle_file(fs, "factorlogit.pkl") = None
                     THEN "IOError" ELSE ""]
    ELSE IF use_saved_model = "False"
    THEN IF model_type = "classification"
         THEN [clf |-> fit(NewFactorModel(model_type), X_train),
               fitted |-> fit(NewFactorModel(model_type), X_train),
               files |-> fs,
               wrote |-> {},
               readf |-> {},
               raised |-> ""]
         ELSE [clf |-> fit(NewFactorModel(model_type), X_train),
               fitted |-> fit(NewFactorModel(model_type), X_train),
               files |-> save_object_as_pickle(fs, "factorlogit.pkl",
                                               fit(NewFactorModel(model_type), X_train)),
               wrote |-> {"factorlogit.pkl"},
               readf |-> {},
               raised |-> ""]
    ELSE [clf |-> NewFactorModel(model_type),
          fitted |-> None,
          files |-> fs,
          wrote |-> {},
          readf |-> {},
          raised |-> ""]

\* line 176: res = X_test.values * clf.coef_
Products(X, coef) == [i \in DOMAIN X |-> [j \in DOMAIN X[i] |-> X[i][j] * coef[j]]]

\* numpy argsort: the indexes of v in ascending order of value; the default
\* sort is not stable, so the order of equal values is the build's (tieOrder)
argsort(v, order) ==
    LET before(a, b) == \/ v[a] < v[b]
                        \/ v[a] = v[b] /\ (IF order = "asc" THEN a < b ELSE a > b)
        position(a) == 1 + Cardinality({b \in DOMAIN v : before(b, a)})
    IN [k \in DOMAIN v |-> CHOOSE a \in DOMAIN v : position(a) = k]

Negate(v) == [j \in DOMAIN v |-> 0 - v[j]]

\* lines 194-198, one list: the column ranked at place in every row
Factor(res, order, place) ==
    [i \in DOMAIN res |-> col_list[argsort(Negate(res[i]), order)[place]]]

\* lines 168-206: the console output, the failure and the value returned once
\* the model m is there
RankFactors(debug, m, X, order) ==
    IF ~IsFitted(m)
    THEN [printed |-> IF debug
                      THEN <<"Coeffs right before multiplic. to determine top 3 factors">>
                      ELSE <<>>,
          raised |-> "AttributeError",
          ret |-> None]
    ELSE IF debug /\ Len(X) < 3
    THEN [printed |-> <<"Coeffs right before multiplic. to determine top 3 factors",
                        "coef_", "X_test right before this multiplication", "X_test",
                        "Result of coef * Xtest row by row multiplication">>
                      \o [i \in 1..Len(X) |-> "res row"],
          raised |-> "IndexError",
          ret |-> None]
    ELSE [printed |-> IF debug
                      THEN <<"Coeffs right before multiplic. to determine top 3 factors",
                             "coef_", "X_test right before this multiplication", "X_test",
                             "Result of coef * Xtest row by row multiplication",
                             "res row", "res row", "res row",
                             "Sorting column importance rankings for each row in X_test...",
                             "Top three factors for top five rows:", "factors">>
                      ELSE <<>>,
          raised |-> "",
          ret |-> [type |-> "tuple",
                   items |-> <<Factor(Products(X, coef_(m)), order, 1),
                               Factor(Products(X, coef_(m)), order, 2),
                               Factor(Products(X, coef_(m)), order, 3)>>]]

\* lines 140-206
find_top_three_factors(debug, X_train, model_type, use_saved_model) ==
    LET got == FactorModel(files, X_train, model_type, use_saved_model)
        out == RankFactors(debug, got.clf, X_test, tieOrder)
        failure == IF got.raised # "" THEN got.raised ELSE out.raised
    IN /\ call' = [type |-> "find_top_three_factors", debug |-> debug,
                   X_train |-> X_train, model_type |-> model_type,
                   use_saved_model |-> use_saved_model]
       /\ clf' = got.clf
       /\ fitted' = got.fitted
       /\ files' = got.files
       /\ wrote' = got.wrote
       /\ readf' = got.readf
       /\ lastWritten' = IF "factorlogit.pkl" \in got.wrote
                         THEN [lastWritten EXCEPT !["factorlogit.pkl"] = got.fitted]
                         ELSE lastWritten
       /\ printed' = IF got.raised # "" THEN <<>>
                     ELSE (IF debug /\ use_saved_model = "False"
                           THEN <<"clf object right before fitting factor ranking model",
                                  "clf">>
                           ELSE <<>>) \o out.printed
       /\ raised' = failure
       /\ ret' = IF failure = "" THEN out.ret ELSE None
       /\ pc' = IF failure = "" THEN "returned" ELSE "raised"
       /\ UNCHANGED <<importances, aucVars, factorVars>>

\* the caller's test tables: 1..MaxRows rows of NumCols values
TestTables == UNION {[1..n -> [1..NumCols -> 0..1]] : n \in 1..MaxRows}

InitFactors ==
    /\ pc = "idle"
    /\ printed = <<>>
    /\ ret = None
    /\ raised = ""
    /\ InitAucIdle
    /\ files = [f \in PickleFiles |-> None]
    /\ lastWritten = [f \in PickleFiles |-> None]
    /\ call = None
    /\ clf = None
    /\ fitted = None
    /\ wrote = {}
    /\ readf = {}
    /\ importances = None
    /\ X_test \in TestTables
    /\ tieOrder \in {"asc", "desc"}

FindTopThreeFactors ==
    \E debug \in BOOLEAN, X_train \in FactorTrainSets, model_type \in ModelTypes,
       use_saved_model \in UseSavedValues :
        find_top_three_factors(debug, X_train, model_type, use_saved_model)

NextFactors == FindTopThreeFactors

SpecFactors == InitFactors /\ [][NextFactors]_vars

----------------------------------------------------------------------------
(* Properties of GenerateAUC, under SpecAUC *)

Finished == pc \in {"returned", "raised"}
EqualLengths == Len(predictions) = Len(labels)
Printed(msg) == \E k \in DOMAIN printed : printed[k] = msg

\* C1: GenerateAUC raises 'Data vectors are not equal length!' exactly when
\* len(predictions) != len(labels); the check comes first, so on a mismatch
\* nothing is printed, no curve or area is computed, nothing is plotted and
\* nothing is returned, whatever aucType, plotFlg and allCutoffsFlg are; every
\* other failure is one the library raises.
C1_LengthCheckFirst ==
    /\ (raised = "Data vectors are not equal length!")
         <=> (pc # "start" /\ ~EqualLengths)
    /\ ~EqualLengths =>
         /\ pc \in {"start", "raised"}
         /\ printed = <<>>
         /\ curve = None
         /\ area = None
         /\ plotted = ""
         /\ ret = None
    /\ (pc = "raised" /\ EqualLengths) => raised \in {"TypeError", "IndexError"}

\* a mismatched call that asked for the PR curve, the table and the plot, and
\* one that asked for an unknown curve, both ended by the length failure
C1_Witness ==
    /\ pc = "raised"
    /\ raised = "Data vectors are not equal length!"
    /\ Len(predictions) > Len(labels)
    /\ Len(labels) > 0
    /\ plotFlg
    /\ allCutoffsFlg
    /\ upper(aucType) # SS

\* C2: the curve follows upper(aucType): 'PR' in any case yields the
\* precision-recall result (keys AU_PR, BestCutoff, BestPrecision,
\* BestRecall), every other string the ROC result (keys AU_ROC, BestCutoff,
\* BestTpr, BestFpr); the fallback notice is printed only for strings that are
\* neither SS nor PR.
C2_CurveSelection ==
    (Finished /\ EqualLengths) =>
       /\ pc = "returned"
       /\ IF upper(aucType) = PR
          THEN DOMAIN ret = {"type", "AU_PR", "BestCutoff", "BestPrecision", "BestRecall"}
          ELSE DOMAIN ret = {"type", "AU_ROC", "BestCutoff", "BestTpr", "BestFpr"}
       /\ Printed("Drawing ROC curve with Sensitivity/Specificity")
            <=> (upper(aucType) # SS /\ upper(aucType) # PR)

\* C7: GenerateAUC returns the area under the chosen curve, a float: what a
\* completed call returns is the area itself, so it depends neither on
\* plotFlg nor on allCutoffsFlg.
C7_ReturnsArea ==
    pc = "returned" => ret = area

\* C9: on the ROC branch every call with equal lengths and both classes
\* completes and returns one suggested cutoff: BestCutoff is the threshold of
\* the first ROC point at minimal squared distance to (0, 1), BestTpr and
\* BestFpr are the rates of that point; also when several points tie.
C9_BestCutoff ==
    (Finished /\ EqualLengths /\ curveType = SS) =>
       /\ pc = "returned"
       /\ LET best == Min({k \in DOMAIN curve.pts :
                             \A j \in DOMAIN curve.pts :
                                 RocDistance(curve, k) <= RocDistance(curve, j)})
          IN /\ ret.BestCutoff = curve.pts[best].thr
             /\ ret.BestTpr = [num |-> curve.pts[best].tps, den |-> curve.P]
             /\ ret.BestFpr = [num |-> curve.pts[best].fps, den |-> curve.N]

----------------------------------------------------------------------------
(* Properties of clfreport, under SpecClf *)

\* C3: probability.pkl is written only by a call with devcheck == 'notdev' and
\* use_saved_model not True, and then holds the model that call fitted on
\* (X_train, y_train); a notdev call with use_saved_model True fits nothing,
\* writes nothing and predicts with the model the most recent writing call
\* stored; a yesdev call neither reads nor writes the file.
C3_ProbabilityPickle ==
    /\ files["probability.pkl"] = lastWritten["probability.pkl"]
    /\ call # None =>
         /\ ("probability.pkl" \in wrote)
              <=> (call.devcheck = "notdev" /\ call.use_saved_model # "True")
         /\ "probability.pkl" \in wrote =>
              /\ fitted = fit(call.algo, call.X_train)
              /\ files["probability.pkl"] = fitted
         /\ (call.devcheck = "notdev" /\ call.use_saved_model = "True") =>
              /\ fitted = None
              /\ wrote = {}
              /\ pc = "returned" =>
                   /\ lastWritten["probability.pkl"] # None
                   /\ ret.model = lastWritten["probability.pkl"]
         /\ call.devcheck = "yesdev" =>
              "probability.pkl" \notin (wrote \cup readf)

\* a notdev call with use_saved_model True that predicted with the stored
\* model, which is not the estimator the call was handed
C3_Witness ==
    /\ call # None
    /\ call.devcheck = "notdev"
    /\ call.use_saved_model = "True"
    /\ pc = "returned"
    /\ ret.model = files["probability.pkl"]
    /\ ret.model # fit(call.algo, call.X_train)

\* C6: clfreport with devcheck == 'yesdev' and modeltype == 'regression' fits
\* the model, reports RMSE and mean absolute error and completes by returning
\* the predictions.
C6_YesdevRegression ==
    (call # None /\ call.devcheck = "yesdev" /\ call.modeltype = "regression") =>
       /\ pc = "returned"
       /\ fitted # None
       /\ Printed("RMSE error:")
       /\ Printed("Mean absolute error:")
       /\ \/ ret = predict(fitted, call.X_test)
          \/ /\ ret.type = "tuple"
             /\ ret.items[1] = predict(fitted, call.X_test)

\* C8: a yesdev classification call returns a tuple that starts with y_pred
\* and roc_auc: the pair, with no importances written, for a model without
\* feature_importances_ whether or not tune is True; the triple with clf, the
\* importances written with col_list, for a model that has them.
C8_YesdevClassificationReturn ==
    (call # None /\ call.devcheck = "yesdev" /\ call.modeltype = "classification") =>
       /\ pc = "returned"
       /\ ret.type = "tuple"
       /\ ret.items[1] = predict_proba(fitted, call.X_test)
       /\ ret.items[2] = roc_auc_score(y_test_of(call.X_test), ret.items[1])
       /\ IF call.algo.kind = "forest"
          THEN /\ Len(ret.items) = 3
               /\ ret.items[3] = clf
               /\ importances # None
               /\ importances.col_list = col_list_of(call.X_test)
          ELSE /\ Len(ret.items) = 2
               /\ importances = None

----------------------------------------------------------------------------
(* Properties of find_top_three_factors, under SpecFactors *)

ColumnOf(name) == CHOOSE j \in 1..NumCols : col_list[j] = name

\* C4: for both model types a call with use_saved_model False writes the model
\* it fitted to factorlogit.pkl, so that the call that follows it with
\* use_saved_model True and the same model_type, X_test and debug loads that
\* model and returns the same three lists.
C4_SaveThenLoad ==
    [][(/\ pc = "returned"
        /\ call.use_saved_model = "False"
        /\ call'.use_saved_model = "True"
        /\ call'.model_type = call.model_type
        /\ call'.debug = call.debug)
       => (/\ files["factorlogit.pkl"] = fitted
           /\ pc' = "returned"
           /\ ret' = ret)]_vars

\* C5: with a coefficient per column the call returns three lists as long as
\* X_test has rows; in every row the three names are distinct columns whose
\* products value * coefficient do not increase from first to third, and no
\* other column has a product above the third's.
C5_TopThree ==
    (Finished /\ call # None /\ IsFitted(clf)) =>
       /\ pc = "returned"
       /\ \A p \in 1..3 : Len(ret.items[p]) = Len(X_test)
       /\ \A i \in 1..Len(X_test) :
            LET res == Products(X_test, coef_(clf))[i]
                c1 == ColumnOf(ret.items[1][i])
                c2 == ColumnOf(ret.items[2][i])
                c3 == ColumnOf(ret.items[3][i])
            IN /\ Cardinality({c1, c2, c3}) = 3
               /\ res[c1] >= res[c2]
               /\ res[c2] >= res[c3]
               /\ \A j \in 1..NumCols \ {c1, c2, c3} : res[j] <= res[c3]

====
